---- MODULE Spec2Model ----
(***************************************************************************)
(* Provider selection, quota accounting and fallback of the Fazner AI      *)
(* platform: AIManager (backend/src/utils/ai-providers.ts) and             *)
(* AIController.processAIRequest / selectOptimalProvider / handleFallback  *)
(* (controllers/ai-controller).                                            *)
(*                                                                         *)
(* Money is in units of 0.0001 USD, so costPer1KTokens 0.001 is 10.        *)
(* requestsPerDay of the registry is scaled down to DayLimit so that the   *)
(* daily limit is reachable within a bounded number of requests.           *)
(***************************************************************************)
EXTENDS Integers, Sequences, FiniteSets, TLC

(* ------------------------------ bounds -------------------------------- *)
MaxRequests == 2      \* requests accepted over one behaviour
MaxInFlight == 2      \* requests being handled concurrently
DayLimit == 1         \* scaled rateLimit.requestsPerDay of every provider
MaxDay == 2           \* index of the last calendar date the clock reaches

(* ------------------------- program constants -------------------------- *)
MaxFallbacks == 2     \* .slice(0, 2) in handleFallback

Null == "null"        \* null / undefined provider
Slots == 1..MaxInFlight

(* ------------------------------ registry ------------------------------ *)
Provider(id, env, prio, cost, img, emb) ==
    [id |-> id, apiKeyEnv |-> env, priority |-> prio,
     rateLimit |-> [requestsPerDay |-> DayLimit],
     features |-> [chat |-> TRUE, codeGeneration |-> TRUE,
                   imageGeneration |-> img, embeddings |-> emb],
     pricing |-> [costPer1KTokens |-> cost, currency |-> "USD"]]

AI_PROVIDERS ==
    << Provider("openrouter", "OPENROUTER_API_KEY", 1, 10,  FALSE, TRUE),
       Provider("openai",     "OPENAI_API_KEY",     2, 300, TRUE,  TRUE),
       Provider("anthropic",  "ANTHROPIC_API_KEY",  3, 150, FALSE, FALSE),
       Provider("cohere",     "COHERE_API_KEY",     4, 15,  FALSE, TRUE),
       Provider("groq",       "GROQ_API_KEY",       5, 1,   FALSE, FALSE),
       Provider("together",   "TOGETHER_API_KEY",   6, 8,   FALSE, TRUE) >>

ProviderIds == { AI_PROVIDERS[i].id : i \in 1..Len(AI_PROVIDERS) }
EnvNames == { AI_PROVIDERS[i].apiKeyEnv : i \in 1..Len(AI_PROVIDERS) }
ById(id) == CHOOSE p \in { AI_PROVIDERS[i] : i \in 1..Len(AI_PROVIDERS) } : p.id = id
Ids(seq) == [ i \in 1..Len(seq) |-> seq[i].id ]
Range(seq) == { seq[i] : i \in 1..Len(seq) }

(* ----------------------------- calendar ------------------------------- *)
\* The dates the clock passes through; getDate() is the day of the month.
Calendar(i) ==
    CASE i = 0 -> [year |-> 2024, month |-> 1, day |-> 31]
      [] i = 1 -> [year |-> 2024, month |-> 2, day |-> 1]
      [] i = 2 -> [year |-> 2024, month |-> 3, day |-> 1]
      [] OTHER -> [year |-> 2024, month |-> 3, day |-> 1 + (i - 2)]
getDate(d) == d.day

(* ---------------------------- credentials ----------------------------- *)
\* Values of process.env[...]: unset, or a string (a sequence of characters).
Undefined == << "undefined" >>

RECURSIVE TrimLeft(_)
TrimLeft(s) == IF s # << >> /\ Head(s) = " " THEN TrimLeft(Tail(s)) ELSE s
RECURSIVE TrimRight(_)
TrimRight(s) ==
    IF s # << >> /\ s[Len(s)] = " " THEN TrimRight(SubSeq(s, 1, Len(s) - 1)) ELSE s
trim(s) == TrimRight(TrimLeft(s))

\* The environments the server is started in: the providers of one of these
\* sets have a key, every other variable is unset, empty or blank.
CredentialSets ==
    { {},
      {"groq"},
      {"openrouter", "openai"},
      {"openai", "anthropic", "together"},
      {"openrouter", "openai", "cohere", "groq"},
      {"openrouter", "openai", "anthropic", "cohere", "groq", "together"} }
Blank(p) ==
    CASE p.priority % 3 = 0 -> Undefined
      [] p.priority % 3 = 1 -> << >>
      [] OTHER -> << " " >>

\* recordCalls is history: the recordUsage calls executed for each provider
\* since its counter was last reset.
VARIABLES env, availableProviders, usageStats, now, req, started, recordCalls
vars == << env, availableProviders, usageStats, now, req, started, recordCalls >>

hasApiKey(provider) ==
    LET apiKey == env[provider.apiKeyEnv]
    IN  apiKey # Undefined /\ apiKey # << >> /\ trim(apiKey) # << >>

(* ------------------------------ AIManager ----------------------------- *)
\* InsertByPriority with the comparator reversed (b.priority - a.priority).
RECURSIVE InsertByPriorityDesc(_, _)
InsertByPriorityDesc(p, sorted) ==
    IF sorted = << >> THEN << p >>
    ELSE IF Head(sorted).priority - p.priority < 0
         THEN << p >> \o sorted
         ELSE << Head(sorted) >> \o InsertByPriorityDesc(p, Tail(sorted))

\* Array.prototype.sort((a, b) => a.priority - b.priority): stable.
RECURSIVE InsertByPriority(_, _)
InsertByPriority(p, sorted) ==
    IF sorted = << >> THEN << p >>
    ELSE IF p.priority - Head(sorted).priority < 0
         THEN << p >> \o sorted
         ELSE << Head(sorted) >> \o InsertByPriority(p, Tail(sorted))
RECURSIVE SortByPriority(_)
SortByPriority(seq) ==
    IF seq = << >> THEN << >>
    ELSE InsertByPriority(seq[Len(seq)], SortByPriority(SubSeq(seq, 1, Len(seq) - 1)))

\* getAvailableProviders without its .filter(provider => this.hasApiKey(provider)).
getAvailableProvidersUnfiltered == SortByPriority(AI_PROVIDERS)

getAvailableProviders == SortByPriority(SelectSeq(AI_PROVIDERS, hasApiKey))

\* A field of an options object, undef when the object has no such field.
Field(obj, name, undef) == IF name \in DOMAIN obj THEN obj[name] ELSE undef

\* Head0 falling back to the head of the registry when the list is empty.
Head0Registry(seq) == IF seq = << >> THEN AI_PROVIDERS[1].id ELSE seq[1].id

\* candidates[0] || null
Head0(seq) == IF seq = << >> THEN Null ELSE seq[1].id

\* getBestProvider ranking its candidates by cost instead of priority.
getBestByCost(preferences) ==
    LET feature == Field(preferences, "feature", Null)
        HasFeature(p) == p.features[feature]
        byFeature == IF feature # Null THEN SelectSeq(getAvailableProviders, HasFeature)
                     ELSE getAvailableProviders
    IN  IF byFeature = << >> THEN Null
        ELSE (CHOOSE p \in Range(byFeature) :
                \A q \in Range(byFeature) :
                    p.pricing.costPer1KTokens <= q.pricing.costPer1KTokens).id

getBestProvider(preferences) ==
    LET candidates == getAvailableProviders
        feature == Field(preferences, "feature", Null)
        maxCost == Field(preferences, "maxCostPer1KTokens", 0)  \* 0, undefined: falsy
        HasFeature(p) == p.features[feature]
        WithinCost(p) == p.pricing.costPer1KTokens <= maxCost
        byFeature == IF feature # Null THEN SelectSeq(candidates, HasFeature) ELSE candidates
        byCost == IF maxCost # 0 THEN SelectSeq(byFeature, WithinCost) ELSE byFeature
    IN  Head0(SortByPriority(byCost))

\* createProviderChain without its .filter(p => p.features[taskType]).
createProviderChainAll(taskType) == SortByPriority(getAvailableProviders)

createProviderChain(taskType) ==
    LET HasFeature(p) == p.features[taskType]
    IN  SortByPriority(SelectSeq(getAvailableProviders, HasFeature))

\* The reduce of getCostOptimalProvider with <= for <: among providers of equal
\* cost the last one wins.
NoProvider == [id |-> Null]
RECURSIVE CostReduceLast(_, _)
CostReduceLast(best, providers) ==
    IF providers = << >> THEN best
    ELSE LET current == Head(providers)
         IN  IF best.id = Null
                \/ current.pricing.costPer1KTokens <= best.pricing.costPer1KTokens
             THEN CostReduceLast(current, Tail(providers))
             ELSE CostReduceLast(best, Tail(providers))

\* providers.reduce((best, current) => ..., null): best is null (NoProvider)
\* or the cheapest provider seen so far.
RECURSIVE CostReduce(_, _)
CostReduce(best, providers) ==
    IF providers = << >> THEN best
    ELSE LET current == Head(providers)
         IN  IF best.id = Null
                \/ current.pricing.costPer1KTokens < best.pricing.costPer1KTokens
             THEN CostReduce(current, Tail(providers))
             ELSE CostReduce(best, Tail(providers))
getCostOptimalProvider(taskType) == CostReduce(NoProvider, createProviderChain(taskType)).id

\* getFastestProvider without its preference for groq.
getFastestByPriority(taskType) == Head0(createProviderChain(taskType))

\* fastProviders.find(p => p.id === 'groq') || fastProviders[0] || null
getFastestProvider(taskType) ==
    LET providers == createProviderChain(taskType)
    IN  IF \E i \in 1..Len(providers) : providers[i].id = "groq"
        THEN "groq"
        ELSE Head0(providers)

\* canUseProvider rolls the counter over as a side effect: the counters after
\* the call, and its result evaluated on them.
CanUseStats(stats, providerId) ==
    IF providerId \notin availableProviders \/ providerId \notin DOMAIN stats
    THEN stats
    ELSE IF getDate(Calendar(now)) # getDate(Calendar(stats[providerId].lastReset))
         THEN [stats EXCEPT ![providerId] = [requests |-> 0, lastReset |-> now]]
         ELSE stats
canUseProvider(stats, providerId) ==
    IF providerId \notin availableProviders THEN FALSE
    ELSE IF providerId \notin DOMAIN stats THEN TRUE
    ELSE CanUseStats(stats, providerId)[providerId].requests
            < ById(providerId).rateLimit.requestsPerDay

\* recordUsage writing back a count that ignores the increments made by the
\* other requests in flight.
recordUsageLost(stats, providerId) ==
    IF providerId \in DOMAIN stats
    THEN [stats EXCEPT ![providerId].requests = 1]
    ELSE stats

\* stats.requests++: one synchronous read-modify-write.
recordUsage(stats, providerId) ==
    IF providerId \in DOMAIN stats
    THEN [stats EXCEPT ![providerId].requests = @ + 1]
    ELSE stats

(* ----------------------------- AIController --------------------------- *)
NoPreferences == [present |-> FALSE, optimizeFor |-> "none", maxCost |-> 0]
Preferences ==
    {NoPreferences} \cup
    { q \in [present : {TRUE},
             optimizeFor : {"none", "cost", "speed", "quality"},
             maxCost : {0, 5}] : q.maxCost # 0 => q.optimizeFor = "quality" }
\* The request bodies handled: one without a usable message, and every
\* combination of provider and preferences with one.
Requests ==
    { [validMessage |-> FALSE, provider |-> Null, preferences |-> NoPreferences] } \cup
    [ validMessage : {TRUE},
      provider : ProviderIds \cup {Null, "unknown"},
      preferences : Preferences ]

\* preferences.features as the routes pass it on: /code sets codeGeneration,
\* /creative and /switch-provider set chat, /chat hands over whatever the
\* client's body holds. One capability stands for the one-element array.
Capabilities == {"chat", "codeGeneration", "imageGeneration", "embeddings"}
RouteRequests ==
    { [request EXCEPT !.preferences =
          [present |-> TRUE, optimizeFor |-> request.preferences.optimizeFor,
           maxCost |-> request.preferences.maxCost, features |-> capability]] :
        request \in { q \in Requests : q.validMessage }, capability \in Capabilities }

\* The provider chosen when no explicit provider is returned.
AutoSelect(request) ==
    IF request.preferences.present /\ request.preferences.optimizeFor = "cost"
    THEN getCostOptimalProvider("chat")
    ELSE IF request.preferences.present /\ request.preferences.optimizeFor = "speed"
    THEN getFastestProvider("chat")
    ELSE IF request.preferences.present /\ request.preferences.optimizeFor = "quality"
    THEN getBestProvider([feature |-> "chat", maxCost |-> request.preferences.maxCost])
    ELSE getBestProvider([feature |-> "chat"])

\* selectOptimalProvider: the provider returned and the counters it leaves.
ExplicitFound(request) ==
    /\ request.provider # Null
    /\ \E i \in 1..Len(getAvailableProviders) :
          getAvailableProviders[i].id = request.provider
selectOptimalProvider(request, stats) ==
    IF ExplicitFound(request)
    THEN [provider |-> IF canUseProvider(stats, request.provider)
                       THEN request.provider
                       ELSE AutoSelect(request),
          stats |-> CanUseStats(stats, request.provider)]
    ELSE [provider |-> AutoSelect(request), stats |-> stats]

\* Errors thrown by executeAIRequest: a non-2xx status names the provider in
\* its message; a rejected fetch (or body parse) carries the transport message.
NoError == [kind |-> "none", provider |-> Null]
ErrorOf(providerId, outcome) ==
    IF outcome = "http" THEN [kind |-> "http", provider |-> providerId]
    ELSE [kind |-> "transport", provider |-> Null]
Outcomes == {"ok", "http", "transport"}

\* data, the parsed 2xx body, by the fields executeAIRequest reads:
\* usage.prompt_tokens, usage.completion_tokens, choices[0].message.content
\* and model. NoData is the body {} (and the data of a call with no 2xx body).
NoData == [ f \in {} |-> 0 ]
FullUsage ==
    [prompt_tokens |-> 1000, completion_tokens |-> 500,
     content |-> "completion", model |-> "model"]
\* Complete bodies reporting both token counts, one, or no usage object.
Usages ==
    { FullUsage,
      [prompt_tokens |-> 1000, content |-> "completion", model |-> "model"],
      [content |-> "completion", model |-> "model"] }
\* Usages and the 2xx bodies without choices (or message content), without
\* model, or without anything.
Bodies ==
    Usages \cup
    { [prompt_tokens |-> 1000, completion_tokens |-> 500, model |-> "model"],
      [prompt_tokens |-> 1000, completion_tokens |-> 500, content |-> "completion"],
      NoData }
\* What a provider call can settle with: a 2xx body carrying one of usages, a
\* non-2xx status, or a rejected fetch.
Answers(usages) ==
    { [outcome |-> "ok", data |-> d] : d \in usages } \cup
    { [outcome |-> o, data |-> NoData] : o \in {"http", "transport"} }

\* UsageOf billing the prompt tokens only.
UsageOfPrompt(provider, data) ==
    LET promptTokens == Field(data, "prompt_tokens", 0)
        completionTokens == Field(data, "completion_tokens", 0)
        totalTokens == promptTokens + completionTokens
    IN  [promptTokens |-> promptTokens, completionTokens |-> completionTokens,
         totalTokens |-> totalTokens,
         cost |-> promptTokens * provider.pricing.costPer1KTokens,
         currency |-> provider.pricing.currency]

\* usage of the AIResponse built by executeAIRequest. costPer1KTokens is in
\* 0.0001 USD, so (totalTokens / 1000) * costPer1KTokens is, in 0.0000001 USD,
\* totalTokens * costPer1KTokens.
UsageOf(provider, data) ==
    LET promptTokens == Field(data, "prompt_tokens", 0)          \* || 0
        completionTokens == Field(data, "completion_tokens", 0)  \* || 0
        totalTokens == promptTokens + completionTokens
    IN  [promptTokens |-> promptTokens, completionTokens |-> completionTokens,
         totalTokens |-> totalTokens,
         cost |-> totalTokens * provider.pricing.costPer1KTokens,
         currency |-> provider.pricing.currency]
NoUsage ==
    [promptTokens |-> 0, completionTokens |-> 0, totalTokens |-> 0, cost |-> 0,
     currency |-> Null]

NoResponse ==
    [status |-> 0, kind |-> "none", provider |-> Null, usage |-> NoUsage,
     content |-> Null, model |-> Null,
     originalError |-> NoError, availableProviders |-> << >>]
BadRequestResponse == [NoResponse EXCEPT !.status = 400, !.kind = "badRequest"]
NoProviderResponse ==
    [NoResponse EXCEPT !.status = 503, !.kind = "noProvider",
                       !.availableProviders = Ids(getAvailableProviders)]
\* content: data.choices?.[0]?.message?.content || 'No response generated';
\* model: data.model, undefined when the body has none.
ContentOf(data) == Field(data, "content", "No response generated")
ModelOf(data) == Field(data, "model", "undefined")
SuccessResponse(providerId, data) ==
    [NoResponse EXCEPT !.status = 200, !.kind = "success", !.provider = providerId,
                       !.usage = UsageOf(ById(providerId), data),
                       !.content = ContentOf(data), !.model = ModelOf(data)]
\* FallbackSuccessResponse naming the provider of the original error.
FallbackSuccessNamesFailed(providerId, originalError, data) ==
    [NoResponse EXCEPT !.status = 200, !.kind = "fallbackSuccess",
                       !.usage = UsageOf(ById(providerId), data),
                       !.content = ContentOf(data), !.model = ModelOf(data),
                       !.provider = originalError.provider,
                       !.originalError = originalError]

\* res.json({...fallbackResponse, note: ...})
FallbackSuccessResponse(providerId, originalError, data) ==
    [NoResponse EXCEPT !.status = 200, !.kind = "fallbackSuccess",
                       !.usage = UsageOf(ById(providerId), data),
                       !.content = ContentOf(data), !.model = ModelOf(data),
                       !.provider = providerId, !.originalError = originalError]
AllFailedResponse(originalError) ==
    [NoResponse EXCEPT !.status = 503, !.kind = "allFailed",
                       !.originalError = originalError,
                       !.availableProviders = Ids(getAvailableProviders)]

\* The failed attempts a response reports: the 200 of the fallback path (its
\* note) and the 503 of handleFallback carry originalError.message and no list.
Diagnostics(response) ==
    IF response.originalError = NoError THEN << >> ELSE << response.originalError >>

\* FallbackProviders without its .slice(0, 2).
FallbackProvidersUncut(requested) ==
    LET NotRequested(p) == p.id # requested
    IN  Ids(SelectSeq(createProviderChain("chat"), NotRequested))

\* FallbackProviders keeping the first MaxFallbacks usable candidates: the
\* canUseProvider test moved before the .slice(0, 2).
FallbackProvidersUsable(requested) ==
    LET Usable(p) == p.id # requested /\ canUseProvider(usageStats, p.id)
        rest == SelectSeq(createProviderChain("chat"), Usable)
    IN  Ids(SubSeq(rest, 1, IF Len(rest) < MaxFallbacks THEN Len(rest) ELSE MaxFallbacks))

\* handleFallback: the candidates, createProviderChain('chat') without the
\* provider named in the request body, cut to the first MaxFallbacks.
FallbackProviders(requested) ==
    LET NotRequested(p) == p.id # requested
        rest == SelectSeq(createProviderChain("chat"), NotRequested)
    IN  Ids(SubSeq(rest, 1, IF Len(rest) < MaxFallbacks THEN Len(rest) ELSE MaxFallbacks))

\* The for loop of handleFallback from candidate i on, up to its next outbound
\* call: every candidate examined goes through canUseProvider.
RECURSIVE FallbackScan(_, _, _)
FallbackScan(candidates, i, stats) ==
    IF i > Len(candidates) THEN [idx |-> i, stats |-> stats]
    ELSE IF canUseProvider(stats, candidates[i])
         THEN [idx |-> i, stats |-> CanUseStats(stats, candidates[i])]
         ELSE FallbackScan(candidates, i + 1, CanUseStats(stats, candidates[i]))

IdleRequest ==
    [pc |-> "idle", provider |-> Null, features |-> Null, selected |-> Null,
     fallbackProviders |-> << >>, idx |-> 0, originalError |-> NoError,
     calls |-> << >>, lastError |-> NoError, recorded |-> 0, sent |-> 0,
     response |-> NoResponse]

\* A call as dispatched: overQuota notes whether the provider's counter for
\* the current date had already reached requestsPerDay.
OverQuota(stats, providerId) ==
    /\ providerId \in DOMAIN stats
    /\ stats[providerId].lastReset = now
    /\ stats[providerId].requests >= ById(providerId).rateLimit.requestsPerDay
Dispatch(stats, providerId) ==
    [provider |-> providerId, outcome |-> "pending", data |-> NoData,
     overQuota |-> OverQuota(stats, providerId)]
Settle(calls, outcome, data) ==
    [calls EXCEPT ![Len(calls)].outcome = IF outcome = "ok" THEN "ok" ELSE "failed",
                  ![Len(calls)].data = data]

\* ContinueFallback without the res.status(503).json(...) that follows the loop.
ContinueFallbackSilent(r, i, stats) ==
    LET scan == FallbackScan(r.fallbackProviders, i, stats)
    IN  IF scan.idx > Len(r.fallbackProviders)
        THEN [r EXCEPT !.pc = "done", !.idx = scan.idx]
        ELSE [r EXCEPT !.pc = "fallbackFetch", !.idx = scan.idx,
                       !.calls = Append(@, Dispatch(scan.stats,
                                                    r.fallbackProviders[scan.idx]))]

\* The state of a request after the loop of handleFallback has run from
\* candidate i: either the next call is in flight or the 503 was sent.
ContinueFallback(r, i, stats) ==
    LET scan == FallbackScan(r.fallbackProviders, i, stats)
    IN  IF scan.idx > Len(r.fallbackProviders)
        THEN [r EXCEPT !.pc = "done", !.idx = scan.idx, !.sent = @ + 1,
                       !.response = AllFailedResponse(r.originalError)]
        ELSE [r EXCEPT !.pc = "fallbackFetch", !.idx = scan.idx,
                       !.calls = Append(@, Dispatch(scan.stats,
                                                    r.fallbackProviders[scan.idx]))]

\* FallbackCatch without the try/catch around the fallback call: the error
\* leaves handleFallback and processAIRequest, and no response is sent.
FallbackUncaught(r, stats) ==
    [r EXCEPT !.pc = "done", !.response = [NoResponse EXCEPT !.kind = "thrown"]]

\* catch (fallbackError) { logger.warn(...); continue; }
FallbackCatch(r, stats) == ContinueFallback(r, r.idx + 1, stats)

(* ------------------------------- state -------------------------------- *)
\* recordCalls after a step that leaves the counters statsAfter and executed
\* recordUsage for the providers in recorded.
RecordCallsAfter(statsAfter, recorded) ==
    [ id \in DOMAIN recordCalls |->
        IF statsAfter[id].lastReset # usageStats[id].lastReset THEN 0
        ELSE recordCalls[id] + (IF id \in recorded THEN 1 ELSE 0) ]

EnvironmentOf(keyed) ==
    [ n \in EnvNames |->
        LET p == CHOOSE q \in Range(AI_PROVIDERS) : q.apiKeyEnv = n
        IN  IF p.id \in keyed THEN << "s", "k" >> ELSE Blank(p) ]
Environments == { EnvironmentOf(keyed) : keyed \in CredentialSets }

Init ==
    /\ env \in Environments
    /\ availableProviders = { id \in ProviderIds : hasApiKey(ById(id)) }
    /\ usageStats = [ id \in availableProviders |-> [requests |-> 0, lastReset |-> 0] ]
    /\ now = 0
    /\ req = [ r \in Slots |-> IdleRequest ]
    /\ started = 0
    /\ recordCalls = [ id \in availableProviders |-> 0 ]

\* processAIRequest up to its first await: validation and selection.
Start(r, request) ==
    /\ req[r].pc \in {"idle", "done"}
    /\ \A q \in Slots : q < r => req[q].pc \notin {"idle", "done"}
    /\ started < MaxRequests
    /\ started' = started + 1
    /\ IF ~request.validMessage
       THEN /\ req' = [req EXCEPT ![r] =
                          [IdleRequest EXCEPT !.pc = "done", !.provider = request.provider,
                                              !.response = BadRequestResponse,
                                              !.sent = @ + 1]]
            /\ UNCHANGED usageStats
       ELSE LET sel == selectOptimalProvider(request, usageStats)
            IN  /\ req' = [req EXCEPT ![r] =
                              [IdleRequest EXCEPT !.pc = "selected",
                                                  !.provider = request.provider,
                                                  !.features = Field(request.preferences,
                                                                     "features", Null),
                                                  !.selected = sel.provider]]
                /\ usageStats' = sel.stats
    /\ recordCalls' = RecordCallsAfter(usageStats', {})
    /\ UNCHANGED << env, availableProviders, now >>

\* After the await of selectOptimalProvider: 503 or the primary call goes out.
AfterSelect(r) ==
    /\ req[r].pc = "selected"
    /\ IF req[r].selected = Null
       THEN req' = [req EXCEPT ![r].pc = "done", ![r].response = NoProviderResponse,
                               ![r].sent = @ + 1]
       ELSE req' = [req EXCEPT ![r].pc = "primaryFetch",
                               ![r].calls = Append(@, Dispatch(usageStats, req[r].selected))]
    /\ UNCHANGED << env, availableProviders, usageStats, now, started, recordCalls >>

\* The primary call settles: recordUsage and the 200, or the catch block
\* and handleFallback up to its first outbound call.
PrimaryResponds(r, outcome, data) ==
    /\ req[r].pc = "primaryFetch"
    /\ IF outcome = "ok"
       THEN /\ usageStats' = recordUsage(usageStats, req[r].selected)
            /\ req' = [req EXCEPT ![r].pc = "done",
                                  ![r].calls = Settle(@, outcome, data),
                                  ![r].recorded = @ + 1,
                                  ![r].response = SuccessResponse(req[r].selected, data),
                                  ![r].sent = @ + 1]
       ELSE LET err == ErrorOf(req[r].selected, outcome)
                entered == [req[r] EXCEPT !.calls = Settle(@, outcome, data),
                                          !.originalError = err,
                                          !.lastError = err,
                                          !.fallbackProviders = FallbackProviders(req[r].provider)]
                scan == FallbackScan(entered.fallbackProviders, 1, usageStats)
            IN  /\ req' = [req EXCEPT ![r] = ContinueFallback(entered, 1, usageStats)]
                /\ usageStats' = scan.stats
    /\ recordCalls' = RecordCallsAfter(usageStats',
                                      IF outcome = "ok" THEN {req[r].selected} ELSE {})
    /\ UNCHANGED << env, availableProviders, now, started >>

\* A fallback call settles: the 200 with the note, or the next candidate.
FallbackResponds(r, outcome, data) ==
    /\ req[r].pc = "fallbackFetch"
    /\ LET provider == req[r].fallbackProviders[req[r].idx]
       IN  IF outcome = "ok"
           THEN /\ req' = [req EXCEPT ![r].pc = "done",
                                      ![r].calls = Settle(@, outcome, data),
                                      ![r].response =
                                          FallbackSuccessResponse(provider, req[r].originalError, data),
                                      ![r].sent = @ + 1]
                /\ UNCHANGED usageStats
           ELSE LET failed == [req[r] EXCEPT !.calls = Settle(@, outcome, data),
                                             !.lastError = ErrorOf(provider, outcome)]
                    scan == FallbackScan(failed.fallbackProviders, failed.idx + 1, usageStats)
                IN  /\ req' = [req EXCEPT ![r] = FallbackCatch(failed, usageStats)]
                    /\ usageStats' = scan.stats
    /\ recordCalls' = RecordCallsAfter(usageStats', {})
    /\ UNCHANGED << env, availableProviders, now, started >>

\* The wall clock reaches the next date of the calendar.
Tick ==
    /\ now < MaxDay
    /\ now' = now + 1
    /\ UNCHANGED << env, availableProviders, usageStats, req, started, recordCalls >>

\* A request arriving while no other request is being handled.
StartAlone(r, request) ==
    /\ \A q \in Slots : req[q].pc \in {"idle", "done"}
    /\ Start(r, request)

\* Requests handled one at a time, over the dates of the calendar.
Next ==
    \/ \E r \in Slots, request \in Requests : StartAlone(r, request)
    \/ \E r \in Slots : AfterSelect(r)
    \/ \E r \in Slots, a \in Answers({FullUsage}) : PrimaryResponds(r, a.outcome, a.data)
    \/ \E r \in Slots, a \in Answers({FullUsage}) : FallbackResponds(r, a.outcome, a.data)
    \/ Tick

Spec == Init /\ [][Next]_vars

\* Requests handled one at a time within one calendar date, the providers'
\* 2xx bodies ranging over Bodies.
NextUsage ==
    \/ \E r \in Slots, request \in Requests : StartAlone(r, request)
    \/ \E r \in Slots : AfterSelect(r)
    \/ \E r \in Slots, a \in Answers(Bodies) : PrimaryResponds(r, a.outcome, a.data)
    \/ \E r \in Slots, a \in Answers(Bodies) : FallbackResponds(r, a.outcome, a.data)

SpecUsage == Init /\ [][NextUsage]_vars

\* Requests of every route handled one at a time within one calendar date.
NextRoutes ==
    \/ \E r \in Slots, request \in RouteRequests : StartAlone(r, request)
    \/ \E r \in Slots : AfterSelect(r)
    \/ \E r \in Slots, a \in Answers({FullUsage}) : PrimaryResponds(r, a.outcome, a.data)
    \/ \E r \in Slots, a \in Answers({FullUsage}) : FallbackResponds(r, a.outcome, a.data)

SpecRoutes == Init /\ [][NextRoutes]_vars

\* dotenv.config() of server.ts, which runs after the imports have constructed
\* aiManager: a variable of the .env file is set in process.env unless
\* process.env already has it (blank or not). No request is accepted before.
LoadEnvironment(file) ==
    /\ started = 0
    /\ env' = [ n \in EnvNames |-> IF env[n] = Undefined THEN file[n] ELSE env[n] ]
    /\ env' # env
    /\ UNCHANGED << availableProviders, usageStats, now, req, started, recordCalls >>

\* Requests handled one at a time within one calendar date, the .env file
\* loaded after the construction of aiManager.
NextEnv ==
    \/ \E file \in Environments : LoadEnvironment(file)
    \/ \E r \in Slots, request \in Requests : StartAlone(r, request)
    \/ \E r \in Slots : AfterSelect(r)
    \/ \E r \in Slots, a \in Answers({FullUsage}) : PrimaryResponds(r, a.outcome, a.data)
    \/ \E r \in Slots, a \in Answers({FullUsage}) : FallbackResponds(r, a.outcome, a.data)

SpecEnv == Init /\ [][NextEnv]_vars

\* Requests in flight concurrently, interleaved at their awaits, within one
\* calendar date.
NextConcurrent ==
    \/ \E r \in Slots, request \in Requests : Start(r, request)
    \/ \E r \in Slots : AfterSelect(r)
    \/ \E r \in Slots, a \in Answers({FullUsage}) : PrimaryResponds(r, a.outcome, a.data)
    \/ \E r \in Slots, a \in Answers({FullUsage}) : FallbackResponds(r, a.outcome, a.data)

SpecConcurrent == Init /\ [][NextConcurrent]_vars

\* Spec with the scheduling the event loop gives: the continuation after an
\* await that has resolved runs, and the clock advances. Nothing obliges a
\* provider to complete its answer: fetch is called without signal or
\* timeout, and response.json() waits for the end of the body.
SpecLive ==
    /\ Init
    /\ [][Next]_vars
    /\ \A r \in Slots : WF_vars(AfterSelect(r))
    /\ WF_vars(Tick)

(* ------------------------------ properties ---------------------------- *)
Limit(id) == ById(id).rateLimit.requestsPerDay
CallIdx(r) == 1..Len(req[r].calls)
CalledProviders(r) == { req[r].calls[i].provider : i \in CallIdx(r) }
FailedProviders(r) ==
    { req[r].calls[i].provider : i \in { j \in CallIdx(r) : req[r].calls[j].outcome = "failed" } }
Done(r) == req[r].pc = "done"
AutoRequests == { request \in Requests : request.validMessage /\ request.provider = Null }
ExplicitRequests == { request \in Requests : request.validMessage /\ request.provider # Null }

\* C1: within one calendar day (the counter's window is the current date) no
\* provider's usage counter exceeds its rateLimit.requestsPerDay.
C1_CounterWithinDailyLimit ==
    \A id \in DOMAIN usageStats :
        usageStats[id].lastReset = now => usageStats[id].requests <= Limit(id)

\* C2: no outbound call, primary or fallback, is issued to a provider whose
\* counter for the current date has already reached requestsPerDay.
C2_NoCallWithoutCapacity ==
    \A r \in Slots : \A i \in CallIdx(r) : ~req[r].calls[i].overQuota

\* C3: automatic selection never returns a provider whose remaining quota is
\* 0; with A = openrouter (priority 1, limit reached) and B = openai (priority
\* 2, unused) the only credentialed providers, it returns B.
ScenarioAB ==
    /\ availableProviders = {"openrouter", "openai"}
    /\ usageStats["openrouter"].lastReset = now
    /\ usageStats["openrouter"].requests = Limit("openrouter")
    /\ usageStats["openai"].requests = 0
C3_SelectionSkipsExhausted ==
    \A request \in AutoRequests :
        LET chosen == selectOptimalProvider(request, usageStats).provider
        IN  /\ chosen # Null => ~OverQuota(usageStats, chosen)
            /\ ScenarioAB => chosen = "openai"

\* C4: when a request has completed, its recordUsage calls number exactly its
\* outbound calls (one increment per dispatched call, failed or not).
C4_EveryCallRecorded ==
    \A r \in Slots : Done(r) => req[r].recorded = Len(req[r].calls)

\* C5: a request naming provider X gets X when X has a credential and passes
\* canUseProvider, and otherwise no provider at all (never a substitute).
C5_ExplicitNeverSubstituted ==
    /\ \A r \in Slots :
          req[r].pc # "idle" /\ req[r].provider # Null /\ req[r].response.kind # "badRequest"
              => req[r].selected \in {req[r].provider, Null}
    /\ \A request \in ExplicitRequests :
          ExplicitFound(request) /\ canUseProvider(usageStats, request.provider)
              => selectOptimalProvider(request, usageStats).provider = request.provider

\* C6: within one request no provider receives more than one outbound call.
C6_NoProviderCalledTwice ==
    \A r \in Slots : \A i, j \in CallIdx(r) :
        i # j => req[r].calls[i].provider # req[r].calls[j].provider

\* C7: a request makes at most three outbound calls, the first to the selected
\* primary, the later ones to fallback candidates in ascending priority, each
\* call going out only after every earlier one has failed.
C7_BoundedOrderedAttempts ==
    \A r \in Slots :
        LET calls == req[r].calls
        IN  /\ Len(calls) <= 3
            /\ calls # << >> => calls[1].provider = req[r].selected
            /\ \A i, j \in 2..Len(calls) :
                  i < j => ById(calls[i].provider).priority < ById(calls[j].provider).priority
            /\ \A i \in 1..(Len(calls) - 1) : calls[i].outcome = "failed"
C7_Witness ==
    \E r \in Slots :
        /\ Done(r)
        /\ Len(req[r].calls) = 3
        /\ req[r].calls[2].provider # req[r].calls[3].provider

\* C8: a request all of whose attempted providers failed ends with the 503 of
\* handleFallback: no success response, and no error thrown past the handler.
AllCallsFailed(r) ==
    /\ req[r].calls # << >>
    /\ \A i \in CallIdx(r) : req[r].calls[i].outcome = "failed"
C8_AllFailedEndsIn503 ==
    \A r \in Slots :
        /\ Done(r) /\ AllCallsFailed(r) =>
              req[r].response.status = 503 /\ req[r].response.kind = "allFailed"
        /\ req[r].response.kind # "thrown"
C8_Witness ==
    \E r \in Slots :
        /\ Done(r) /\ AllCallsFailed(r) /\ Len(req[r].calls) = 3
        /\ req[r].response.status = 503

\* C9: the failure sent when all candidates failed carries the error of the
\* last failed attempt and one entry per provider that was called.
C9_FailureCarriesLastErrorAndAttempts ==
    \A r \in Slots :
        Done(r) /\ req[r].response.kind = "allFailed" =>
            /\ req[r].response.originalError = req[r].lastError
            /\ Len(Diagnostics(req[r].response)) = Cardinality(CalledProviders(r))

\* C10: a success after a failed primary is the result of the first call that
\* succeeded, which is the last call made, and reports one failed attempt per
\* provider that failed before it.
C10_FallbackSuccessDiagnostics ==
    \A r \in Slots :
        Done(r) /\ req[r].response.kind = "fallbackSuccess" =>
            LET calls == req[r].calls
            IN  /\ calls[Len(calls)].outcome = "ok"
                /\ \A i \in 1..(Len(calls) - 1) : calls[i].outcome = "failed"
                /\ req[r].response.provider = calls[Len(calls)].provider
                /\ Len(Diagnostics(req[r].response)) = Cardinality(FailedProviders(r))

\* C11: the provider automatic selection returns (goal cost, speed, quality or
\* none) has a non-blank credential; no provider without one is selected or
\* called.
C11_SelectedHasCredential ==
    /\ \A request \in AutoRequests :
          LET chosen == selectOptimalProvider(request, usageStats).provider
          IN  chosen # Null => hasApiKey(ById(chosen))
    /\ \A r \in Slots :
          /\ req[r].selected # Null => hasApiKey(ById(req[r].selected))
          /\ \A i \in CallIdx(r) : hasApiKey(ById(req[r].calls[i].provider))
C11_Witness ==
    \E r \in Slots :
        /\ req[r].provider = Null
        /\ req[r].calls # << >>
        /\ \E id \in ProviderIds :
              /\ ~hasApiKey(ById(id))
              /\ ById(id).priority < ById(req[r].calls[1].provider).priority

\* C12: getCostOptimalProvider returns a credentialed chat provider of minimum
\* costPer1KTokens, the one of smallest priority among those of minimum cost,
\* and null exactly when no credentialed provider offers chat. The registry
\* has no two providers of equal cost, so the tie-break is checked on the
\* reduce itself, over priority-ordered chains with costs drawn from TieCosts
\* (a property of the reduce alone, evaluated before the first request).
TieCosts == {1, 2}
TiePriorities == 1..3
TieChains ==
    LET Entries == TiePriorities \X TieCosts
        Ordered(c) == \A i, j \in 1..Len(c) : i < j => c[i][1] < c[j][1]
        Chains == { c \in UNION { [1..n -> Entries] : n \in 0..3 } : Ordered(c) }
    IN  { [ i \in 1..Len(c) |-> Provider("tie", "TIE_API_KEY", c[i][1], c[i][2], FALSE, FALSE) ]
            : c \in Chains }
CheapestOf(candidates, result) ==
    IF candidates = {} THEN result.id = Null
    ELSE /\ result \in candidates
         /\ \A p \in candidates :
               /\ result.pricing.costPer1KTokens <= p.pricing.costPer1KTokens
               /\ p.pricing.costPer1KTokens = result.pricing.costPer1KTokens
                     => result.priority <= p.priority
ChatCredentialed == { p \in Range(AI_PROVIDERS) : hasApiKey(p) /\ p.features.chat }
C12_CostOptimalIsCheapest ==
    /\ LET id == getCostOptimalProvider("chat")
       IN  /\ id = Null <=> ChatCredentialed = {}
           /\ CheapestOf(ChatCredentialed, IF id = Null THEN NoProvider ELSE ById(id))
    /\ \A request \in AutoRequests :
          request.preferences.optimizeFor = "cost" =>
              selectOptimalProvider(request, usageStats).provider =
                  CostReduce(NoProvider, createProviderChain("chat")).id
    /\ started = 0 =>
          \A chain \in TieChains : CheapestOf(Range(chain), CostReduce(NoProvider, chain))
C12_Witness ==
    \E r \in Slots :
        /\ req[r].provider = Null
        /\ req[r].calls # << >>
        /\ req[r].selected = getCostOptimalProvider("chat")
        /\ req[r].selected \notin {getBestProvider([feature |-> "chat"]), getFastestProvider("chat")}

\* C13: a request that gives preferences.maxCost is never served by a selected
\* provider whose costPer1KTokens is above it, whatever the goal, and ends
\* with no provider selected when no credentialed chat provider is within it.
WithinMaxCost(maxCost) ==
    { p \in ChatCredentialed : p.pricing.costPer1KTokens <= maxCost }
C13_SelectedWithinMaxCost ==
    \A request \in AutoRequests :
        request.preferences.maxCost # 0 =>
            LET chosen == selectOptimalProvider(request, usageStats).provider
            IN  /\ chosen # Null =>
                      ById(chosen).pricing.costPer1KTokens <= request.preferences.maxCost
                /\ WithinMaxCost(request.preferences.maxCost) = {} => chosen = Null

\* C14: a canUseProvider evaluation at a calendar date different from the
\* counter's lastReset (day of month equal or not) leaves the counter at 0
\* and lastReset at the current date; at the same date it changes nothing.
C14_RolloverByCalendarDate ==
    \A id \in DOMAIN usageStats :
        LET after == CanUseStats(usageStats, id)[id]
        IN  IF Calendar(usageStats[id].lastReset) # Calendar(now)
            THEN after = [requests |-> 0, lastReset |-> now]
            ELSE after = usageStats[id]

\* C15: the recordUsage of a successful primary call made on a calendar date
\* different from the provider's lastReset rolls the counter over first: after
\* the step the counter is 1 and lastReset is the current date.
C15_RecordUsageRollsOver ==
    [][ \A r \in Slots :
          ( /\ req[r].pc = "primaryFetch"
            /\ req'[r].recorded = req[r].recorded + 1
            /\ Calendar(usageStats[req[r].selected].lastReset) # Calendar(now) )
          => usageStats'[req[r].selected] = [requests |-> 1, lastReset |-> now] ]_vars

C17_EveryAcceptedRequestAnswered ==
    \A r \in Slots : (req[r].pc \in {"selected", "primaryFetch", "fallbackFetch"}) ~> Done(r)

\* C18: with requests to the same provider in flight concurrently, no usage
\* increment is lost or counted twice: each provider's counter equals the
\* number of recordUsage calls executed for it.
C18_NoLostOrDoubleIncrement ==
    \A id \in DOMAIN usageStats : usageStats[id].requests = recordCalls[id]
C18_Witness ==
    \E id \in DOMAIN usageStats :
        /\ recordCalls[id] = 2
        /\ \A r \in Slots :
              /\ Done(r)
              /\ req[r].response.kind = "success"
              /\ req[r].response.provider = id

\* C19: getAvailableProviders is exactly the registry providers with a
\* non-blank credential, each once, in ascending priority; with the
\* credentials unchanged a later call returns the same sequence; the registry
\* keeps its content and order.
RegistryAsDeclared == Ids(AI_PROVIDERS) =
    << "openrouter", "openai", "anthropic", "cohere", "groq", "together" >>
C19_AvailableProvidersExactSorted ==
    LET available == getAvailableProviders
    IN  /\ Range(available) = { p \in Range(AI_PROVIDERS) : hasApiKey(p) }
        /\ Len(available) = Cardinality(Range(available))
        /\ \A i, j \in 1..Len(available) :
              i < j => available[i].priority < available[j].priority
        /\ Ids(available) = Ids(SelectSeq(AI_PROVIDERS, hasApiKey))
        /\ RegistryAsDeclared
C19_Witness ==
    /\ Len(getAvailableProviders) >= 2
    /\ Len(getAvailableProviders) < Len(AI_PROVIDERS)
    /\ \E r \in Slots : Done(r) /\ req[r].calls # << >>

\* C20: the cost of a successful result is ((promptTokens + completionTokens)
\* / 1000) * costPer1KTokens of the provider that answered, a token count the
\* provider's body leaves out counting as 0 and totalTokens being the sum; for
\* 1000 and 500 tokens at 0.002 per 1K tokens (20 units) the cost is 0.003
\* (30000 units of 0.0000001 USD).
Reported(data, name) == IF name \in DOMAIN data THEN data[name] ELSE 0
C20_CostFromTokens ==
    /\ \A r \in Slots :
          (Done(r) /\ req[r].response.status = 200) =>
              LET usage == req[r].response.usage
                  answered == req[r].calls[Len(req[r].calls)]
              IN  /\ answered.provider = req[r].response.provider
                  /\ usage.promptTokens = Reported(answered.data, "prompt_tokens")
                  /\ usage.completionTokens = Reported(answered.data, "completion_tokens")
                  /\ usage.totalTokens = usage.promptTokens + usage.completionTokens
                  /\ usage.cost * 1000 =
                        (usage.promptTokens + usage.completionTokens)
                            * (ById(answered.provider).pricing.costPer1KTokens * 1000)
    /\ UsageOf(Provider("example", "EXAMPLE_API_KEY", 1, 20, FALSE, FALSE),
               [prompt_tokens |-> 1000, completion_tokens |-> 500]).cost = 30000
C20_Witness ==
    \E r \in Slots :
        /\ Done(r)
        /\ req[r].response.kind = "fallbackSuccess"
        /\ req[r].response.usage.totalTokens = 1000
        /\ req[r].response.usage.cost = 1000 * ById(req[r].response.provider).pricing.costPer1KTokens

\* C21: an attempt on a provider changes no other provider's counter or
\* lastReset, and is accounted the same whether or not another provider's
\* attempt failed before it in the request: a call that settles with a 2xx
\* leaves the others' counters and adds one to its own provider's (a provider
\* that had not failed in the request); a call that fails
\* leaves every counter but those of the candidates canUseProvider examines next.
Pending(r) == req[r].calls[Len(req[r].calls)].provider
Examined(r) ==
    { req'[r].fallbackProviders[i] :
        i \in { j \in 1..Len(req'[r].fallbackProviders) : req[r].idx < j /\ j <= req'[r].idx } }
C21_AttemptFrame ==
    [][ \A r \in Slots :
          (req[r].pc \in {"primaryFetch", "fallbackFetch"} /\ req'[r] # req[r]) =>
              IF req'[r].response.status = 200
              THEN /\ \A id \in DOMAIN usageStats \ {Pending(r)} :
                         usageStats'[id] = usageStats[id]
                   /\ Pending(r) \notin FailedProviders(r) =>
                         usageStats'[Pending(r)] =
                             [usageStats[Pending(r)] EXCEPT !.requests = @ + 1]
              ELSE \A id \in DOMAIN usageStats \ Examined(r) :
                       usageStats'[id] = usageStats[id] ]_vars

\* C22: selection with goal speed returns groq whenever groq has a credential
\* and offers chat, whatever its priority; otherwise the credentialed chat
\* provider of smallest priority; and null when there is none.
LowestPriorityOf(candidates) ==
    IF candidates = {} THEN Null
    ELSE (CHOOSE p \in candidates : \A q \in candidates : p.priority <= q.priority).id
SpeedRequests ==
    { request \in AutoRequests : request.preferences.optimizeFor = "speed" }
C22_SpeedPrefersGroq ==
    LET expected == IF ById("groq") \in ChatCredentialed THEN "groq"
                    ELSE LowestPriorityOf(ChatCredentialed)
    IN  /\ getFastestProvider("chat") = expected
        /\ \A request \in SpeedRequests :
              selectOptimalProvider(request, usageStats).provider = expected
        /\ \A r \in Slots :
              (req[r].provider = Null /\ req[r].selected = "groq") =>
                  ById("groq") \in ChatCredentialed
C22_Witness ==
    \E r \in Slots :
        /\ req[r].provider = Null
        /\ req[r].calls # << >>
        /\ req[r].selected = "groq"
        /\ LowestPriorityOf(ChatCredentialed) # "groq"

\* C23: selection with goal quality or with no goal returns the credentialed
\* chat provider of smallest priority number, whatever the providers' costs,
\* and null exactly when no credentialed provider offers chat.
PriorityRequests ==
    { request \in AutoRequests :
        /\ request.preferences.optimizeFor \in {"quality", "none"}
        /\ request.preferences.maxCost = 0 }
C23_BestIsLowestPriority ==
    /\ getBestProvider([feature |-> "chat"]) = LowestPriorityOf(ChatCredentialed)
    /\ getBestProvider([feature |-> "chat"]) = Null <=> ChatCredentialed = {}
    /\ \A request \in PriorityRequests :
          selectOptimalProvider(request, usageStats).provider =
              LowestPriorityOf(ChatCredentialed)
C23_Witness ==
    \E r \in Slots :
        /\ req[r].provider = Null
        /\ req[r].calls # << >>
        /\ req[r].selected = LowestPriorityOf(ChatCredentialed)
        /\ req[r].selected \notin {getCostOptimalProvider("chat"), getFastestProvider("chat")}

\* C24: the provider selected for a request, and every provider called for it,
\* offers the capability the request asks for in preferences.features.
C24_CapabilityOffered ==
    \A r \in Slots :
        req[r].features # Null =>
            /\ req[r].selected # Null => ById(req[r].selected).features[req[r].features]
            /\ \A i \in CallIdx(r) : ById(req[r].calls[i].provider).features[req[r].features]

\* C25: canUseProvider(id) is true exactly when id is a registry provider that
\* has a non-blank credential now and whose counter for the current date is
\* below requestsPerDay, so it agrees with getAvailableProviders on who has a
\* credential; it is false for an unknown id.
CounterToday(id) ==
    IF id \in DOMAIN usageStats /\ Calendar(usageStats[id].lastReset) = Calendar(now)
    THEN usageStats[id].requests
    ELSE 0
C25_CanUseIffCredentialAndQuota ==
    \A id \in ProviderIds \cup {"unknown"} :
        canUseProvider(usageStats, id) <=>
            /\ id \in ProviderIds
            /\ ById(id) \in Range(getAvailableProviders)
            /\ CounterToday(id) < Limit(id)

\* C26: createProviderChain(capability) is exactly the credentialed providers
\* whose features include the capability, each once, in ascending priority;
\* it depends on nothing else of the request, and the candidates of
\* handleFallback are taken from its front.
C26_ChainExactSorted ==
    /\ \A capability \in Capabilities :
          LET chain == createProviderChain(capability)
          IN  /\ Range(chain) =
                    { p \in Range(AI_PROVIDERS) : hasApiKey(p) /\ p.features[capability] }
              /\ Len(chain) = Cardinality(Range(chain))
              /\ \A i, j \in 1..Len(chain) : i < j => chain[i].priority < chain[j].priority
    /\ \A r \in Slots : \A i \in 1..Len(req[r].fallbackProviders) :
          \E j \in 1..Len(createProviderChain("chat")) :
              /\ createProviderChain("chat")[j].id = req[r].fallbackProviders[i]
              /\ i <= j
C26_Witness ==
    /\ createProviderChain("imageGeneration") # << >>
    /\ Len(createProviderChain("imageGeneration")) < Len(createProviderChain("embeddings"))
    /\ Len(createProviderChain("embeddings")) < Len(createProviderChain("chat"))
    /\ \E r \in Slots : Done(r) /\ Len(req[r].fallbackProviders) = MaxFallbacks

\* C27: a success response carries the completion content and the model of the
\* answering provider's body; a 2xx body without content or without model is
\* never returned as a success.
C27_SuccessIsComplete ==
    \A r \in Slots :
        (Done(r) /\ req[r].response.status = 200) =>
            LET body == req[r].calls[Len(req[r].calls)].data
            IN  /\ {"content", "model"} \subseteq DOMAIN body
                /\ req[r].response.content = body.content
                /\ req[r].response.model = body.model

\* C28: every invocation of processAIRequest sends exactly one response on
\* every path: none while a provider call is pending or selection is under
\* way, one (400, 503 or 200) once the handler has returned, never a second.
C28_ExactlyOneResponse ==
    \A r \in Slots :
        /\ req[r].sent <= 1
        /\ Done(r) =>
              /\ req[r].sent = 1
              /\ req[r].response.status \in {200, 400, 503}
        /\ req[r].pc \in {"idle", "selected", "primaryFetch", "fallbackFetch"} =>
              /\ req[r].sent = 0
              /\ req[r].response = NoResponse
        /\ req[r].pc \in {"primaryFetch", "fallbackFetch"} =>
              req[r].calls[Len(req[r].calls)].outcome = "pending"
C28_Witness ==
    \E r \in Slots :
        /\ Done(r)
        /\ req[r].response.kind = "allFailed"
        /\ Len(req[r].calls) = 1 + MaxFallbacks
        /\ req[r].sent = 1

\* C29: handleFallback considers only the first two entries of the chat chain
\* that remain after removing the provider id named in the request: an entry
\* skipped because canUseProvider is false still takes one of the two places,
\* and an entry at the third or a later position is never called in fallback.
RemainingChain(r) ==
    LET NotRequested(p) == p.id # req[r].provider
    IN  Ids(SelectSeq(createProviderChain("chat"), NotRequested))
FallbackCalls(r) == { req[r].calls[i].provider : i \in 2..Len(req[r].calls) }
C29_OnlyFirstTwoConsidered ==
    \A r \in Slots :
        LET rest == RemainingChain(r)
        IN  /\ Len(req[r].fallbackProviders) <= 2
            /\ \A i \in 1..Len(req[r].fallbackProviders) : req[r].fallbackProviders[i] = rest[i]
            /\ FallbackCalls(r) \subseteq { rest[i] : i \in 1..2 \cap 1..Len(rest) }
            /\ \A i \in 3..Len(rest) : rest[i] \notin FallbackCalls(r)
            /\ Len(req[r].calls) <= 1 + Len(req[r].fallbackProviders)
C29_Witness ==
    \E r \in Slots :
        LET rest == RemainingChain(r)
        IN  /\ Done(r)
            /\ req[r].response.kind = "allFailed"
            /\ Len(req[r].fallbackProviders) = 2
            /\ Len(req[r].calls) = 2
            /\ Len(rest) >= 3
            /\ canUseProvider(usageStats, rest[3])

====
